---- MODULE Spec2Model ----
(***************************************************************************)
(* Model of the scheduled, rate-limit-aware dispatch engine of tg_bot:     *)
(* Messenger (src/utils/messenger.js), Scheduler (src/utils/scheduler.js)  *)
(* and the sendTask closure of the entry point.                            *)
(*                                                                         *)
(* JavaScript strings that the code inspects (error messages, HH:MM times) *)
(* are sequences of one-character strings, so that includes(), the         *)
(* regular expressions and parseInt are computed, not assumed.             *)
(* Result timestamps (new Date()) are left out: nothing reads them.        *)
(***************************************************************************)
EXTENDS Integers, Sequences, FiniteSets, TLC

\* ------------------------------------------------------------------ bounds
MaxTargets == 2      \* longest target list handed to sendMessagesToAllTargets
MaxRuns == 2         \* sendTask invocations per behaviour (composed model)
MaxTriggers == 2     \* cron.schedule registrations per behaviour
MaxFires == 2        \* fire callbacks per behaviour
MaxTimes == 2        \* longest times list handed to scheduleMultipleDailyTimes

\* --------------------------------------------------------- program constants
DefaultDelay == 2000
DefaultFloodWait == 60

\* ----------------------------------------------------------- string helpers
Digits == {"0", "1", "2", "3", "4", "5", "6", "7", "8", "9"}

DigitVal(c) ==
  CASE c = "0" -> 0 [] c = "1" -> 1 [] c = "2" -> 2 [] c = "3" -> 3
    [] c = "4" -> 4 [] c = "5" -> 5 [] c = "6" -> 6 [] c = "7" -> 7
    [] c = "8" -> 8 [] c = "9" -> 9

RECURSIVE ParseInt(_)
\* parseInt(s, 10) / Number(s) of a non-empty string of decimal digits
ParseInt(s) ==
  IF Len(s) = 0 THEN 0
  ELSE 10 * ParseInt(SubSeq(s, 1, Len(s) - 1)) + DigitVal(s[Len(s)])

\* String.prototype.includes
Includes(s, sub) ==
  \E p \in 1..(Len(s) - Len(sub) + 1) : SubSeq(s, p, p + Len(sub) - 1) = sub

FLOOD_WAIT == <<"F", "L", "O", "O", "D", "_", "W", "A", "I", "T">>
RATE_LIMITED == <<"R", "A", "T", "E", "_", "L", "I", "M", "I", "T", "E", "D">>
INVALID_TARGET ==
  <<"I", "n", "v", "a", "l", "i", "d", " ", "t", "a", "r", "g", "e", "t", " ",
    "c", "o", "n", "f", "i", "g", "u", "r", "a", "t", "i", "o", "n">>
\* message of the TypeError the engine raises on a property read of
\* null/undefined
TYPE_ERROR == <<"C", "a", "n", "n", "o", "t", " ", "r", "e", "a", "d">>

\* a JavaScript number with at most one decimal: whole + tenths / 10, with
\* tenths in 0..9 (a negative number is whole with tenths = 0)
Num(w, t) == [whole |-> w, tenths |-> t]
Whole(n) == Num(n, 0)
NumLess(value, n) == value.whole < n
NumGreater(value, n) == value.whole > n \/ (value.whole = n /\ value.tenths > 0)
\* `${value}`
NumToString(value) ==
  IF value.tenths = 0 THEN ToString(value.whole)
  ELSE ToString(value.whole) \o "." \o ToString(value.tenths)

\* ------------------------------------------------------------------ targets
\* a target as the code reads it: id = 0 and username = "" are the falsy
\* (absent) values; isNull is a null/undefined entry of the targets array
Target(n, t, i, u) == [isNull |-> n, type |-> t, id |-> i, username |-> u]
ChatTarget == Target(FALSE, "chat", 7, "")
GroupTarget == Target(FALSE, "group", 0, "grp")
EmptyTarget == Target(FALSE, "chat", 0, "")
NullTarget == Target(TRUE, "", 0, "")
\* a one-character string, as for...of yields it from a string argument:
\* reading .type, .id or .username of it gives undefined
CharTarget == Target(FALSE, "", 0, "")
Targets == {ChatTarget, GroupTarget, EmptyTarget, NullTarget}

RECURSIVE SeqsUpTo(_, _)
SeqsUpTo(S, n) ==
  IF n = 0 THEN {<<>>}
  ELSE LET shorter == SeqsUpTo(S, n - 1)
       IN  shorter \cup {Append(s, x) : s \in {t \in shorter : Len(t) = n - 1}, x \in S}

TargetLists == SeqsUpTo(Targets, MaxTargets)

\* --------------------------------------------------- values a promise settles
\* a thrown / rejected value: an Error object with a message, a bare string,
\* or null/undefined
ErrorObj(m) == [kind |-> "Error", message |-> m]
StringVal == [kind |-> "string", message |-> <<>>]
NullVal == [kind |-> "null", message |-> <<>>]
NoErr == [kind |-> "none", message |-> <<>>]

MsgFlood0 == FLOOD_WAIT \o <<"_", "0">>
MsgFlood5 == <<"4", "2", "0", " ">> \o FLOOD_WAIT \o <<"_", "5">>
MsgFlood120 == FLOOD_WAIT \o <<"_", "1", "2", "0">>
MsgFloodNoNum == FLOOD_WAIT \o <<"_", "X">>
MsgTimeout == <<"T", "I", "M", "E", "O", "U", "T">>

\* what client.sendMessage can settle with
Resolved(id) == [ok |-> TRUE, id |-> id, err |-> NullVal]
Rejected(e) == [ok |-> FALSE, id |-> 0, err |-> e]
TransportResults ==
  {Resolved(11)} \cup
  {Rejected(e) : e \in {ErrorObj(MsgFlood0), ErrorObj(MsgFlood5),
                        ErrorObj(MsgFlood120), ErrorObj(MsgFloodNoNum),
                        ErrorObj(MsgTimeout), ErrorObj(RATE_LIMITED),
                        StringVal, NullVal}}

\* the transport's failure, as the caller of the engine sees it
IsRateLimit(res) ==
  ~res.ok /\ res.err.kind = "Error" /\ Includes(res.err.message, FLOOD_WAIT)

\* ------------------------------------------------------------- Messenger
\* /FLOOD_WAIT_(\d+)/ : leftmost position where the marker, an underscore
\* and at least one digit follow each other; the digits are taken greedily
FloodMatches(msg) ==
  {p \in 1..Len(msg) :
     /\ p + Len(FLOOD_WAIT) + 1 <= Len(msg)
     /\ SubSeq(msg, p, p + Len(FLOOD_WAIT) - 1) = FLOOD_WAIT
     /\ msg[p + Len(FLOOD_WAIT)] = "_"
     /\ msg[p + Len(FLOOD_WAIT) + 1] \in Digits}

RECURSIVE DigitRun(_, _)
DigitRun(msg, p) ==
  IF p <= Len(msg) /\ msg[p] \in Digits THEN <<msg[p]>> \o DigitRun(msg, p + 1)
  ELSE <<>>

\* an extraction that reads one digit of the duration only
ExtractFloodWaitTimeOneDigit(msg) ==
  IF FloodMatches(msg) # {}
  THEN LET p == CHOOSE q \in FloodMatches(msg) : \A o \in FloodMatches(msg) : q <= o
       IN  DigitVal(msg[p + Len(FLOOD_WAIT) + 1])
  ELSE DefaultFloodWait

\* _extractFloodWaitTime(errorMessage)
ExtractFloodWaitTime(msg) ==
  IF FloodMatches(msg) # {}
  THEN LET p == CHOOSE q \in FloodMatches(msg) : \A o \in FloodMatches(msg) : q <= o
       IN  ParseInt(DigitRun(msg, p + Len(FLOOD_WAIT) + 1))
  ELSE DefaultFloodWait

\* the three result objects sendMessage builds
SuccessResult(target, id) ==
  [success |-> TRUE, target |-> target, hasMessageId |-> TRUE, messageId |-> id,
   hasError |-> FALSE, error |-> <<>>, hasWaitTime |-> FALSE, waitTime |-> 0]
RateLimitedResult(target, w) ==
  [success |-> FALSE, target |-> target, hasMessageId |-> FALSE, messageId |-> 0,
   hasError |-> TRUE, error |-> RATE_LIMITED, hasWaitTime |-> TRUE, waitTime |-> w]
FailureResult(target, m) ==
  [success |-> FALSE, target |-> target, hasMessageId |-> FALSE, messageId |-> 0,
   hasError |-> TRUE, error |-> m, hasWaitTime |-> FALSE, waitTime |-> 0]

Returns(r) == [threw |-> FALSE, result |-> r, err |-> NullVal]
Throws(e) == [threw |-> TRUE, result |-> FailureResult(NullTarget, <<>>), err |-> e]

\* sendMessage, up to its call of the transport: the entity it sends to, or
\* the error its try block raises before the transport is reached
ResolveEntity(target) ==
  IF target.isNull THEN [ok |-> FALSE, err |-> ErrorObj(TYPE_ERROR)]
  ELSE IF target.type = "chat" /\ target.id # 0 THEN [ok |-> TRUE, err |-> NullVal]
  ELSE IF target.username # "" THEN [ok |-> TRUE, err |-> NullVal]
  ELSE [ok |-> FALSE, err |-> ErrorObj(INVALID_TARGET)]

\* the catch block of sendMessage: err.message is read first, the log line
\* then reads target.type; either read can raise out of the handler
SendMessageCatch(target, err) ==
  IF err.kind = "null" THEN Throws(ErrorObj(TYPE_ERROR))
  ELSE IF err.kind = "string" THEN Throws(ErrorObj(TYPE_ERROR))
  ELSE IF Includes(err.message, FLOOD_WAIT)
       THEN IF target.isNull THEN Throws(ErrorObj(TYPE_ERROR))
            ELSE Returns(RateLimitedResult(target, ExtractFloodWaitTime(err.message)))
       ELSE IF target.isNull THEN Throws(ErrorObj(TYPE_ERROR))
            ELSE Returns(FailureResult(target, err.message))

\* sendMessage after the transport has settled with res
SendMessageSettled(target, res) ==
  IF res.ok THEN Returns(SuccessResult(target, res.id))
  ELSE SendMessageCatch(target, res.err)

\* the pause sendMessagesToAllTargets hands to setTimeout after a result
PauseAfter(result, delayBetweenMessages) ==
  IF result.hasError /\ result.error = RATE_LIMITED
     /\ result.hasWaitTime /\ result.waitTime # 0
  THEN (result.waitTime * 1000) + 1000
  ELSE delayBetweenMessages

\* ------------------------------------------- sendMessagesToAllTargets (a run)
\* One run is one call of sendMessagesToAllTargets.  i is the index of the
\* target the for-loop is at, inflight the indices whose client.sendMessage
\* has not settled, timer whether a setTimeout of the loop is pending, pauses
\* the delays handed to setTimeout so far.  attempts (the class of each send
\* attempt as the transport or the target check produced it), errs (what the
\* transport rejected each attempt with, NoErr when it did not), sends (the
\* indices the transport was called for) and stoppedDuring are history only.
\* arg is the kind of value passed as targets, and targets what for...of
\* yields from it.
NewRun(targets, delay, trigger) ==
  [arg |-> "array", targets |-> targets, delay |-> delay, trigger |-> trigger,
   i |-> 0, pc |-> "start", results |-> <<>>, pauses |-> <<>>, timer |-> FALSE,
   inflight |-> {}, attempts |-> <<>>, errs |-> <<>>, sends |-> <<>>,
   err |-> NullVal, stoppedDuring |-> FALSE]

\* a loop that records only the successful sends
AfterOutcomeDropFailures(run, out) ==
  IF out.threw
  THEN [run EXCEPT !.pc = "rejected", !.err = out.err]
  ELSE [run EXCEPT !.pc = "await_timer",
                   !.results = IF out.result.success THEN Append(@, out.result) ELSE @,
                   !.pauses = Append(@, PauseAfter(out.result, run.delay)),
                   !.timer = TRUE]

\* lines 80-91: the value sendMessage settled with is pushed and the pause
\* is started; a rejection of sendMessage leaves the loop and rejects the call
AfterOutcome(run, out) ==
  IF out.threw
  THEN [run EXCEPT !.pc = "rejected", !.err = out.err]
  ELSE [run EXCEPT !.pc = "await_timer",
                   !.results = Append(@, out.result),
                   !.pauses = Append(@, PauseAfter(out.result, run.delay)),
                   !.timer = TRUE]

\* a send whose pause is started without waiting for the send to settle
NextIterationNoAwait(run) ==
  IF run.i = Len(run.targets)
  THEN [run EXCEPT !.pc = "returned"]
  ELSE [run EXCEPT !.i = @ + 1, !.inflight = @ \cup {run.i + 1},
                   !.sends = Append(@, run.i + 1), !.pc = "await_timer",
                   !.timer = TRUE]

\* top of the for-loop: return after the last target, else call sendMessage
\* for the next one, which either reaches the transport (and the loop awaits
\* it) or fails before it (and its catch block produces the outcome at once)
NextIteration(run) ==
  IF run.i = Len(run.targets)
  THEN [run EXCEPT !.pc = "returned"]
  ELSE LET t == run.targets[run.i + 1]
           ent == ResolveEntity(t)
       IN  IF ent.ok
           THEN [run EXCEPT !.i = @ + 1, !.inflight = @ \cup {run.i + 1},
                            !.sends = Append(@, run.i + 1), !.pc = "await_send"]
           ELSE AfterOutcome([run EXCEPT !.i = @ + 1,
                                         !.attempts = Append(@, "fail"),
                                         !.errs = Append(@, NoErr)],
                             SendMessageCatch(t, ent.err))

AttemptClass(res) ==
  IF res.ok THEN "ok" ELSE IF IsRateLimit(res) THEN "rate" ELSE "fail"

\* the transport settles the send in flight and sendMessage resumes
SettleSend(run, res) ==
  AfterOutcome([run EXCEPT !.inflight = @ \ {run.i},
                           !.attempts = Append(@, AttemptClass(res)),
                           !.errs = Append(@, IF res.ok THEN NoErr ELSE res.err)],
               SendMessageSettled(run.targets[run.i], res))

\* the kinds of value the targets argument can be: an array, a string (an
\* iterable of characters), null or undefined, any other non-iterable value
ArgKinds == {"array", "string", "nullish", "notIterable"}

\* a call that refuses an empty list
StartRunRejectEmpty(arg, targets, delay, trigger) ==
  IF arg \in {"nullish", "notIterable"} \/ Len(targets) = 0
  THEN [NewRun(<<>>, delay, trigger) EXCEPT
          !.arg = arg, !.pc = "rejected", !.err = ErrorObj(TYPE_ERROR)]
  ELSE NextIteration([NewRun(targets, delay, trigger) EXCEPT !.arg = arg])

\* lines 75-79: targets.length raises on null and undefined, for...of raises
\* on a value that is not iterable; else the loop starts
StartRun(arg, targets, delay, trigger) ==
  IF arg \in {"nullish", "notIterable"}
  THEN [NewRun(<<>>, delay, trigger) EXCEPT
          !.arg = arg, !.pc = "rejected", !.err = ErrorObj(TYPE_ERROR)]
  ELSE NextIteration([NewRun(targets, delay, trigger) EXCEPT !.arg = arg])

Finished(run) == run.pc \in {"returned", "rejected"}

\* sendTask: config.advanced.messageDelay || 2000
MessageDelay(configured) == IF configured = 0 THEN DefaultDelay ELSE configured
ConfiguredDelays == {0, 100}

\* ------------------------------------------------------------------- state
VARIABLES
  task,            \* the task handed to the scheduler (fixed per behaviour)
  runs,            \* the calls of sendMessagesToAllTargets made so far
  cronTasks,       \* node-cron's tasks, by creation order: expression, running
  scheduledTasks,  \* Scheduler.scheduledTasks: indices into cronTasks
  fires,           \* history: number of fire callbacks run, per cron task
  escaped,         \* history: fire callbacks whose promise rejected
  lastCall,        \* history: the last Scheduler method called and how it ended
  issued,          \* history: triggers the accepted requests since the last
                   \* stopAllTasks stand for (1 per expression, k per k times)
  conv,            \* a call of intervalToCron / dailyTimeToCron: input, result
  main             \* the entry point: its configuration and where main() is

vars ==
  <<task, runs, cronTasks, scheduledTasks, fires, escaped, lastCall, issued, conv,
    main>>
schedVars == <<cronTasks, scheduledTasks, fires, escaped, lastCall, issued>>

\* tasks: the entry point's sendTask over a configuration, or a function
\* that settles at once (resolves, or raises a value)
SendTask(targets, configured) ==
  [kind |-> "sendTask", arg |-> "array", targets |-> targets,
   delay |-> MessageDelay(configured), value |-> NullVal]
\* sendTask over a configuration whose targets entry is not an array; n is
\* the length of the string when it is one
SendTaskNoArray(arg, n, configured) ==
  [SendTask([j \in 1..n |-> CharTarget], configured) EXCEPT !.arg = arg]
NoArrayTasks ==
  {SendTaskNoArray("string", n, d) : n \in 0..MaxTargets, d \in ConfiguredDelays}
  \cup {SendTaskNoArray(a, 0, d) : a \in {"nullish", "notIterable"},
                                   d \in ConfiguredDelays}
ResolvingTask ==
  [kind |-> "resolves", arg |-> "array", targets |-> <<>>, delay |-> 0,
   value |-> NullVal]
RaisingTask(v) ==
  [kind |-> "raises", arg |-> "array", targets |-> <<>>, delay |-> 0, value |-> v]
RaisedValues == {ErrorObj(MsgTimeout), StringVal, NullVal}

\* the entry point.  pc is where main() is: "none" when the scheduler and
\* the engine are used without it, else "start", "await_auth", "await_user",
\* "running", "disconnecting" (SIGINT handler awaiting client.disconnect) or
\* "exited".  phone, creds, login and user are what the environment gives:
\* whether a phone number and API credentials are configured, how the login
\* goes, how getCurrentUser settles.  sched is config.scheduling.  authed is
\* history: authenticate returned true.
MainState(pc, phone, creds, login, user, sched) ==
  [pc |-> pc, phone |-> phone, creds |-> creds, login |-> login, user |-> user,
   sched |-> sched, authed |-> FALSE]
NoSchedConfig ==
  [type |-> "", value |-> Whole(0), unit |-> "", expr |-> "", times |-> <<>>]
NoMain == MainState("none", FALSE, FALSE, "", "", NoSchedConfig)

\* lines 93-109 after a scheduler method returned or raised: main goes on
\* to register the SIGINT handler, or its catch block exits the process
AfterScheduling(m, threw) ==
  IF m.pc = "await_user"
  THEN [m EXCEPT !.pc = IF threw THEN "exited" ELSE "running"]
  ELSE m

\* lines 113-116: the SIGINT handler has stopped the tasks and awaits
\* client.disconnect()
AfterStopAll(m) ==
  IF m.pc = "running" THEN [m EXCEPT !.pc = "disconnecting"] ELSE m

NoConv ==
  [fn |-> "none", value |-> Whole(0), unit |-> "", time |-> <<>>,
   done |-> FALSE, threw |-> FALSE, out |-> ""]
\* expr is the expression handed to scheduleTask by the entry point; times
\* and ret are the argument and the return value of
\* scheduleMultipleDailyTimes; each is empty for the other methods
NoCall ==
  [op |-> "none", threw |-> FALSE, tick |-> 0, expr |-> "", times |-> <<>>,
   ret |-> <<>>]
Called(op, threw, expr, times, ret) ==
  [op |-> op, threw |-> threw, tick |-> 1 - lastCall.tick, expr |-> expr,
   times |-> times, ret |-> ret]

\* --------------------------------------------------- dispatch engine actions
\* a direct call of sendMessagesToAllTargets(targets, message, delay): the
\* synchronous part runs up to the first await
CallDispatch(arg, targets, delay, trigger) ==
  /\ Len(runs) < MaxRuns
  /\ runs' = Append(runs, StartRun(arg, targets, delay, trigger))

\* the fire callback's catch block: the log line reads err.message
FireCatch(err) ==
  IF err.kind = "null" THEN Throws(err) ELSE Returns(FailureResult(NullTarget, <<>>))

\* a run started by a fire callback has rejected and the callback's own
\* catch block raised in turn: the callback's promise rejects
CallbackEscapes(run) ==
  run.trigger # 0 /\ run.pc = "rejected" /\ FireCatch(run.err).threw

Escapes(run) == IF CallbackEscapes(run) THEN 1 ELSE 0

\* a Messenger that keeps one results array for all its calls
SendSettleSharedResults(r, res) ==
  /\ r \in 1..Len(runs)
  /\ runs[r].pc = "await_send"
  /\ runs[r].inflight # {}
  /\ LET mine == SettleSend(runs[r], res)
     IN  runs' = [q \in 1..Len(runs) |->
                    IF q = r THEN mine
                    ELSE [runs[q] EXCEPT !.results = @ \o SubSeq(mine.results,
                                                                Len(runs[r].results) + 1,
                                                                Len(mine.results))]]
  /\ escaped' = escaped + Escapes(runs'[r])
  /\ UNCHANGED <<task, conv, main, cronTasks, scheduledTasks, fires, lastCall, issued>>

\* client.sendMessage of run r's current target settles with res and the
\* run goes on to its pause
SendSettle(r, res) ==
  /\ r \in 1..Len(runs)
  /\ runs[r].pc = "await_send"
  /\ runs[r].inflight # {}
  /\ runs' = [runs EXCEPT ![r] = SettleSend(runs[r], res)]
  /\ escaped' = escaped + Escapes(runs'[r])
  /\ UNCHANGED <<task, conv, main, cronTasks, scheduledTasks, fires, lastCall, issued>>

TimerExpire(r) ==
  /\ r \in 1..Len(runs)
  /\ runs[r].pc = "await_timer"
  /\ runs[r].timer
  /\ runs' = [runs EXCEPT ![r] = NextIteration([runs[r] EXCEPT !.timer = FALSE])]
  /\ escaped' = escaped + Escapes(runs'[r])
  /\ UNCHANGED <<task, conv, main, cronTasks, scheduledTasks, fires, lastCall, issued>>

\* ------------------------------------------------ the engine on its own
InitDispatch ==
  /\ task \in {SendTask(ts, d) : ts \in TargetLists, d \in ConfiguredDelays}
              \cup NoArrayTasks
  /\ runs = <<>>
  /\ cronTasks = <<>>
  /\ scheduledTasks = <<>>
  /\ fires = <<>>
  /\ escaped = 0
  /\ lastCall = NoCall
  /\ issued = 0
  /\ conv = NoConv
  /\ main = NoMain

DispatchAll ==
  /\ Len(runs) = 0
  /\ CallDispatch(task.arg, task.targets, task.delay, 0)
  /\ UNCHANGED <<task, conv, main, schedVars>>

NextDispatch ==
  \/ DispatchAll
  \/ \E res \in TransportResults : SendSettle(1, res)
  \/ TimerExpire(1)

SpecDispatch == InitDispatch /\ [][NextDispatch]_vars

\* the engine under the assumption that the transport settles every send
\* and that every setTimeout expires
DispatchFairness ==
  /\ WF_vars(\E res \in TransportResults : SendSettle(1, res))
  /\ WF_vars(TimerExpire(1))
SpecDispatchFair == SpecDispatch /\ DispatchFairness

\* ---------------------------------------------------------------- Scheduler
\* the state a Scheduler method works on
Sched(ct, st) == [cronTasks |-> ct, scheduledTasks |-> st]
Ok(x) == [threw |-> FALSE, val |-> x]
Fail(x) == [threw |-> TRUE, val |-> x]

\* an intervalToCron whose minute range stops one short
IntervalToCronShortRange(value, unit) ==
  CASE unit = "minutes" ->
         IF NumLess(value, 1) \/ NumGreater(value, 58) THEN Fail("")
         ELSE Ok("*/" \o NumToString(value) \o " * * * *")
    [] unit = "hours" ->
         IF NumLess(value, 1) \/ NumGreater(value, 23) THEN Fail("")
         ELSE Ok("0 */" \o NumToString(value) \o " * * *")
    [] unit = "days" ->
         IF NumLess(value, 1) \/ NumGreater(value, 30) THEN Fail("")
         ELSE Ok("0 0 */" \o NumToString(value) \o " * *")
    [] OTHER -> Fail("")

\* intervalToCron(value, unit)
IntervalToCron(value, unit) ==
  CASE unit = "minutes" ->
         IF NumLess(value, 1) \/ NumGreater(value, 59) THEN Fail("")
         ELSE Ok("*/" \o NumToString(value) \o " * * * *")
    [] unit = "hours" ->
         IF NumLess(value, 1) \/ NumGreater(value, 23) THEN Fail("")
         ELSE Ok("0 */" \o NumToString(value) \o " * * *")
    [] unit = "days" ->
         IF NumLess(value, 1) \/ NumGreater(value, 30) THEN Fail("")
         ELSE Ok("0 0 */" \o NumToString(value) \o " * *")
    [] OTHER -> Fail("")

\* /^([01]?[0-9]|2[0-3]):([0-5][0-9])$/ on a string given as characters
TimeRegexTest(time) ==
  \E h \in {1, 2} :
    /\ Len(time) = h + 3
    /\ IF h = 1 THEN time[1] \in Digits
       ELSE \/ time[1] \in {"0", "1"} /\ time[2] \in Digits
            \/ time[1] = "2" /\ time[2] \in {"0", "1", "2", "3"}
    /\ time[h + 1] = ":"
    /\ time[h + 2] \in {"0", "1", "2", "3", "4", "5"}
    /\ time[h + 3] \in Digits

\* dailyTimeToCron(time): split at ':' and Number() of both parts
DailyTimeToCron(time) ==
  IF ~TimeRegexTest(time) THEN Fail("")
  ELSE LET hours == ParseInt(SubSeq(time, 1, Len(time) - 3))
           minutes == ParseInt(SubSeq(time, Len(time) - 1, Len(time)))
       IN  Ok(ToString(minutes) \o " " \o ToString(hours) \o " * * *")

\* cron.validate of node-cron, on the expressions the model hands to it:
\* those the two conversions produce within their ranges, and the raw samples
ValidRawExpressions == {"*/15 9-17 * * 1-5"}
InvalidRawExpressions == {"every day", "61 * * * *"}
ValidCron ==
  {IntervalToCron(Whole(v), "minutes").val : v \in 1..59}
  \cup {IntervalToCron(Whole(v), "hours").val : v \in 1..23}
  \cup {IntervalToCron(Whole(v), "days").val : v \in 1..30}
  \cup {ToString(m) \o " " \o ToString(h) \o " * * *" : m \in 0..59, h \in 0..23}
  \cup ValidRawExpressions
CronValidate(expr) == expr \in ValidCron

\* a scheduleTask that registers the trigger before it validates
ScheduleTaskValidateLate(sched, expr) ==
  LET id == Len(sched.cronTasks) + 1
      pushed == Sched(Append(sched.cronTasks, [expr |-> expr, running |-> TRUE]),
                      Append(sched.scheduledTasks, id))
  IN  IF ~CronValidate(expr) THEN Fail(pushed) ELSE Ok(pushed)

\* scheduleTask(cronExpression, task): validate, cron.schedule, push
ScheduleTask(sched, expr) ==
  IF ~CronValidate(expr) THEN Fail(sched)
  ELSE LET id == Len(sched.cronTasks) + 1
       IN  Ok(Sched(Append(sched.cronTasks, [expr |-> expr, running |-> TRUE]),
                    Append(sched.scheduledTasks, id)))

\* what scheduleMultipleDailyTimes leaves behind: the scheduler's state and,
\* when it returns, its local scheduledTasks array
Daily(sched, ret) ==
  [cronTasks |-> sched.cronTasks, scheduledTasks |-> sched.scheduledTasks,
   ret |-> ret]

RECURSIVE DailyLoop(_, _, _, _)
\* the for-loop of scheduleMultipleDailyTimes from entry k on: each time is
\* converted and scheduled before the next one is looked at; ret is the
\* local array the scheduled tasks are pushed to
DailyLoop(sched, times, k, ret) ==
  IF k > Len(times) THEN Ok(Daily(sched, ret))
  ELSE LET c == DailyTimeToCron(times[k])
       IN  IF c.threw THEN Fail(Daily(sched, <<>>))
           ELSE LET r == ScheduleTask(sched, c.val)
                IN  IF r.threw THEN Fail(Daily(r.val, <<>>))
                    ELSE DailyLoop(r.val, times, k + 1,
                                   Append(ret, Len(r.val.cronTasks)))

\* a scheduleMultipleDailyTimes that takes an empty array for a valid request
ScheduleMultipleDailyTimesAcceptEmpty(sched, isArray, times) ==
  IF ~isArray THEN Fail(Daily(sched, <<>>))
  ELSE DailyLoop(sched, times, 1, <<>>)

\* scheduleMultipleDailyTimes(times, task); isArray is Array.isArray(times)
ScheduleMultipleDailyTimes(sched, isArray, times) ==
  IF ~isArray \/ Len(times) = 0 THEN Fail(Daily(sched, <<>>))
  ELSE DailyLoop(sched, times, 1, <<>>)

\* a stopAllTasks that forgets the tasks without stopping them
StopAllTasksForgetOnly(sched) == Sched(sched.cronTasks, <<>>)

\* stopAllTasks(): task.stop() on every owned task, then the list is replaced
StopAllTasks(sched) ==
  Sched([id \in 1..Len(sched.cronTasks) |->
           IF \E k \in 1..Len(sched.scheduledTasks) : sched.scheduledTasks[k] = id
           THEN [sched.cronTasks[id] EXCEPT !.running = FALSE]
           ELSE sched.cronTasks[id]],
        <<>>)

\* -------------------------------------------------------- scheduler actions
Now == Sched(cronTasks, scheduledTasks)

Install(r, op, k, expr, times, ret) ==
  /\ cronTasks' = r.val.cronTasks
  /\ scheduledTasks' = r.val.scheduledTasks
  /\ fires' = fires \o [j \in 1..(Len(r.val.cronTasks) - Len(cronTasks)) |-> 0]
  /\ lastCall' = Called(op, r.threw, expr, times, ret)
  /\ issued' = IF r.threw THEN issued ELSE issued + k
  /\ main' = AfterScheduling(main, r.threw)

\* entry point, type 'interval': intervalToCron, then scheduleTask
ScheduleInterval(value, unit) ==
  /\ Len(cronTasks) < MaxTriggers
  /\ LET c == IntervalToCron(value, unit)
         r == IF c.threw THEN Fail(Now) ELSE ScheduleTask(Now, c.val)
     IN  Install(r, "interval", 1, c.val, <<>>, <<>>)
  /\ UNCHANGED <<task, conv, runs, escaped>>

\* entry point, type 'cron': scheduleTask on the raw expression
ScheduleRaw(expr) ==
  /\ Len(cronTasks) < MaxTriggers
  /\ Install(ScheduleTask(Now, expr), "raw", 1, expr, <<>>, <<>>)
  /\ UNCHANGED <<task, conv, runs, escaped>>

\* entry point, type 'daily': scheduleMultipleDailyTimes
ScheduleDaily(isArray, times) ==
  /\ Len(cronTasks) + Len(times) <= MaxTriggers
  /\ LET r == ScheduleMultipleDailyTimes(Now, isArray, times)
     IN  Install(r, "daily", Len(times), "", times, r.val.ret)
  /\ UNCHANGED <<task, conv, runs, escaped>>

StopAll ==
  /\ LET s == StopAllTasks(Now)
     IN  /\ cronTasks' = s.cronTasks
         /\ scheduledTasks' = s.scheduledTasks
  /\ lastCall' = Called("stopAll", FALSE, "", <<>>, <<>>)
  /\ issued' = 0
  /\ main' = AfterStopAll(main)
  /\ runs' = [r \in 1..Len(runs) |->
                IF Finished(runs[r]) THEN runs[r]
                ELSE [runs[r] EXCEPT !.stoppedDuring = TRUE]]
  /\ UNCHANGED <<task, conv, fires, escaped>>

TotalFires == LET RECURSIVE Sum(_)
                  Sum(k) == IF k = 0 THEN 0 ELSE fires[k] + Sum(k - 1)
              IN  Sum(Len(fires))

\* a scheduler that skips an instant while an earlier invocation is running
FireSerialized(id) ==
  /\ id \in 1..Len(cronTasks)
  /\ cronTasks[id].running
  /\ TotalFires < MaxFires
  /\ \A r \in 1..Len(runs) : Finished(runs[r])
  /\ fires' = [fires EXCEPT ![id] = @ + 1]
  /\ CallDispatch(task.arg, task.targets, task.delay, id)
  /\ escaped' = escaped + Escapes(runs'[Len(runs')])
  /\ UNCHANGED <<task, conv, main, cronTasks, scheduledTasks, lastCall, issued>>

\* node-cron runs the callback of a running task at one of its instants:
\* the task is invoked; when it is sendTask the call of
\* sendMessagesToAllTargets starts, when it raises the catch block logs
Fire(id) ==
  /\ id \in 1..Len(cronTasks)
  /\ cronTasks[id].running
  /\ TotalFires < MaxFires
  /\ fires' = [fires EXCEPT ![id] = @ + 1]
  /\ CASE task.kind = "sendTask" ->
            /\ CallDispatch(task.arg, task.targets, task.delay, id)
            /\ escaped' = escaped + Escapes(runs'[Len(runs')])
       [] task.kind = "raises" ->
            /\ escaped' = IF FireCatch(task.value).threw THEN escaped + 1 ELSE escaped
            /\ UNCHANGED runs
       [] OTHER -> UNCHANGED <<runs, escaped>>
  /\ UNCHANGED <<task, conv, main, cronTasks, scheduledTasks, lastCall, issued>>

\* --------------------------------------------------------- scheduling inputs
T0905 == <<"0", "9", ":", "0", "5">>
T930 == <<"9", ":", "3", "0">>
T2359 == <<"2", "3", ":", "5", "9">>
T2500 == <<"2", "5", ":", "0", "0">>
TimeStrings == {T0905, T2359, T2500}

IntervalInputs ==
  {<<Whole(5), "minutes">>, <<Whole(60), "minutes">>, <<Whole(2), "hours">>,
   <<Whole(0), "hours">>, <<Whole(30), "days">>, <<Whole(31), "days">>,
   <<Whole(1), "weeks">>}
RawInputs == ValidRawExpressions \cup InvalidRawExpressions
DailyInputs ==
  {[isArray |-> TRUE, times |-> ts] : ts \in SeqsUpTo(TimeStrings, MaxTimes)}
  \cup {[isArray |-> FALSE, times |-> <<>>]}

\* ------------------------------------------------ the scheduler on its own
InitSched ==
  /\ task \in {ResolvingTask} \cup {RaisingTask(v) : v \in RaisedValues}
  /\ runs = <<>>
  /\ cronTasks = <<>>
  /\ scheduledTasks = <<>>
  /\ fires = <<>>
  /\ escaped = 0
  /\ lastCall = NoCall
  /\ issued = 0
  /\ conv = NoConv
  /\ main = NoMain

NextSched ==
  \/ \E in \in IntervalInputs : ScheduleInterval(in[1], in[2])
  \/ \E expr \in RawInputs : ScheduleRaw(expr)
  \/ \E in \in DailyInputs : ScheduleDaily(in.isArray, in.times)
  \/ StopAll
  \/ \E id \in 1..MaxTriggers : Fire(id)

SpecSched == InitSched /\ [][NextSched]_vars

\* ------------------------------------------------- the composed application
ComposedTargetLists == {<<ChatTarget, GroupTarget>>, <<GroupTarget, NullTarget>>}
ComposedResults == {Resolved(11), Rejected(ErrorObj(MsgFlood5)), Rejected(NullVal)}

Init ==
  /\ task \in {SendTask(ts, 0) : ts \in ComposedTargetLists}
  /\ runs = <<>>
  /\ cronTasks = <<>>
  /\ scheduledTasks = <<>>
  /\ fires = <<>>
  /\ escaped = 0
  /\ lastCall = NoCall
  /\ issued = 0
  /\ conv = NoConv
  /\ main = NoMain

\* the entry point schedules once, by config.scheduling.type
MainSchedule ==
  /\ lastCall = NoCall
  /\ \/ ScheduleInterval(Whole(5), "minutes")
     \/ ScheduleDaily(TRUE, <<T0905, T930>>)

Next ==
  \/ MainSchedule
  \/ StopAll
  \/ \E id \in 1..MaxTriggers : Fire(id)
  \/ \E r \in 1..MaxRuns, res \in ComposedResults : SendSettle(r, res)
  \/ \E r \in 1..MaxRuns : TimerExpire(r)

Spec == Init /\ [][Next]_vars

\* -------------------------------------------- the two conversions on their own
MaxIntervalValue == 61   \* largest whole part of an interval value tried
MaxTimeLen == 5          \* longest time string tried

TimeAlphabet == {"0", "2", "3", "4", "6", ":"}
TimeInputs == {t \in SeqsUpTo(TimeAlphabet, MaxTimeLen) : Len(t) >= 3}
UnitInputs == {"minutes", "hours", "days", "weeks", "seconds"}
ValueInputs ==
  {Whole(w) : w \in (-1)..MaxIntervalValue}
  \cup {Num(w, 5) : w \in 0..MaxIntervalValue}

InitConvert ==
  /\ task = ResolvingTask
  /\ runs = <<>>
  /\ cronTasks = <<>>
  /\ scheduledTasks = <<>>
  /\ fires = <<>>
  /\ escaped = 0
  /\ lastCall = NoCall
  /\ issued = 0
  /\ main = NoMain
  /\ conv \in {[NoConv EXCEPT !.fn = "intervalToCron", !.value = v, !.unit = u] :
                 v \in ValueInputs, u \in UnitInputs}
              \cup {[NoConv EXCEPT !.fn = "dailyTimeToCron", !.time = t] : t \in TimeInputs}

CallIntervalToCron ==
  /\ conv.fn = "intervalToCron" /\ ~conv.done
  /\ LET r == IntervalToCron(conv.value, conv.unit)
     IN  conv' = [conv EXCEPT !.done = TRUE, !.threw = r.threw, !.out = r.val]
  /\ UNCHANGED <<task, main, runs, schedVars>>

CallDailyTimeToCron ==
  /\ conv.fn = "dailyTimeToCron" /\ ~conv.done
  /\ LET r == DailyTimeToCron(conv.time)
     IN  conv' = [conv EXCEPT !.done = TRUE, !.threw = r.threw, !.out = r.val]
  /\ UNCHANGED <<task, main, runs, schedVars>>

NextConvert == CallIntervalToCron \/ CallDailyTimeToCron

SpecConvert == InitConvert /\ [][NextConvert]_vars

\* ------------------------------------ calls of the engine that overlap
\* sendMessagesToAllTargets is called directly, up to MaxRuns times, a later
\* call while earlier ones are under way
OverlapTargetLists == {<<ChatTarget, GroupTarget>>, <<GroupTarget>>}
OverlapDelays == {100}
OverlapResults ==
  {Resolved(11), Rejected(ErrorObj(MsgFlood5)), Rejected(ErrorObj(MsgTimeout)),
   Rejected(NullVal)}

InitOverlap ==
  /\ task = SendTask(<<>>, 0)
  /\ runs = <<>>
  /\ cronTasks = <<>>
  /\ scheduledTasks = <<>>
  /\ fires = <<>>
  /\ escaped = 0
  /\ lastCall = NoCall
  /\ issued = 0
  /\ conv = NoConv
  /\ main = NoMain

DispatchOverlapping(targets, delay) ==
  /\ CallDispatch("array", targets, delay, 0)
  /\ UNCHANGED <<task, conv, main, schedVars>>

NextOverlap ==
  \/ \E ts \in OverlapTargetLists, d \in OverlapDelays : DispatchOverlapping(ts, d)
  \/ \E r \in 1..MaxRuns, res \in OverlapResults : SendSettle(r, res)
  \/ \E r \in 1..MaxRuns : TimerExpire(r)

SpecOverlap == InitOverlap /\ [][NextOverlap]_vars

\* ------------------------------------------------- the entry point, main()
\* TelegramAuth.authenticate: "true", "false", or "rejects" when its catch
\* block raises on a rejection that has no message
Authenticate(phone, creds, login) ==
  IF ~phone THEN "false"
  ELSE IF ~creds THEN "false"
  ELSE CASE login = "saved" -> "true"
         [] login = "start_ok" -> "true"
         [] login = "not_authorized" -> "false"
         [] login = "start_rejects" -> "false"
         [] OTHER -> "rejects"
LoginInputs ==
  {"saved", "start_ok", "not_authorized", "start_rejects", "start_rejects_null"}
UserInputs == {"user", "rejects"}

IntervalConfig(value, unit) ==
  [NoSchedConfig EXCEPT !.type = "interval", !.value = value, !.unit = unit]
DailyConfig(times) == [NoSchedConfig EXCEPT !.type = "daily", !.times = times]
CronConfig(expr) == [NoSchedConfig EXCEPT !.type = "cron", !.expr = expr]
OtherConfig(type) == [NoSchedConfig EXCEPT !.type = type]
SchedConfigs ==
  {IntervalConfig(Whole(5), "minutes"), IntervalConfig(Whole(60), "minutes"),
   DailyConfig(<<T0905, T2359>>), DailyConfig(<<T0905, T2500>>),
   CronConfig("*/15 9-17 * * 1-5"), CronConfig("every day"),
   OtherConfig("hourly"), OtherConfig("")}
MainResults == {Resolved(11), Rejected(ErrorObj(MsgTimeout))}

InitMain ==
  /\ task = SendTask(<<ChatTarget, GroupTarget>>, 0)
  /\ runs = <<>>
  /\ cronTasks = <<>>
  /\ scheduledTasks = <<>>
  /\ fires = <<>>
  /\ escaped = 0
  /\ lastCall = NoCall
  /\ issued = 0
  /\ conv = NoConv
  /\ main \in {MainState("start", ph, cr, lg, us, sc) :
                 ph \in BOOLEAN, cr \in BOOLEAN, lg \in LoginInputs,
                 us \in UserInputs, sc \in SchedConfigs}

Exit(m) == [m EXCEPT !.pc = "exited"]
Alive == main.pc \in {"running", "disconnecting"}

\* lines 30-58: a missing phone number exits, else authenticate is awaited
MainStart ==
  /\ main.pc = "start"
  /\ main' = IF main.phone THEN [main EXCEPT !.pc = "await_auth"] ELSE Exit(main)
  /\ UNCHANGED <<task, conv, runs, schedVars>>

\* a main() that goes on whatever authenticate returned
MainAuthenticateUnchecked ==
  /\ main.pc = "await_auth"
  /\ LET a == Authenticate(main.phone, main.creds, main.login)
     IN  main' = [main EXCEPT !.pc = "await_user", !.authed = (a = "true")]
  /\ UNCHANGED <<task, conv, runs, schedVars>>

\* lines 58-67: authenticate settles; on false, or on a rejection (the catch
\* block of main), the process exits, else getCurrentUser is awaited
MainAuthenticate ==
  /\ main.pc = "await_auth"
  /\ LET a == Authenticate(main.phone, main.creds, main.login)
     IN  main' = IF a = "true"
                 THEN [main EXCEPT !.pc = "await_user", !.authed = TRUE]
                 ELSE Exit(main)
  /\ UNCHANGED <<task, conv, runs, schedVars>>

\* lines 67-118: getCurrentUser settles and the rest of main() runs without
\* a further await: messenger, scheduler and sendTask are created, the
\* schedule is set up by config.scheduling.type, and the SIGINT handler is
\* registered; a raised error or an unsupported type exits the process
MainSetup ==
  /\ main.pc = "await_user"
  /\ CASE main.user = "rejects" ->
            /\ main' = Exit(main)
            /\ UNCHANGED <<task, conv, runs, schedVars>>
       [] main.user # "rejects" /\ main.sched.type = "interval" ->
            ScheduleInterval(main.sched.value, main.sched.unit)
       [] main.user # "rejects" /\ main.sched.type = "daily" ->
            ScheduleDaily(TRUE, main.sched.times)
       [] main.user # "rejects" /\ main.sched.type = "cron" ->
            ScheduleRaw(main.sched.expr)
       [] OTHER ->
            /\ main' = Exit(main)
            /\ UNCHANGED <<task, conv, runs, schedVars>>

MainFire(id) == Alive /\ Fire(id)
MainSendSettle(r, res) == Alive /\ SendSettle(r, res)
MainTimerExpire(r) == Alive /\ TimerExpire(r)

\* SIGINT: stopAllTasks, then client.disconnect() is awaited
MainSigint == main.pc = "running" /\ StopAll

\* client.disconnect() has settled: process.exit(0)
MainDisconnected ==
  /\ main.pc = "disconnecting"
  /\ main' = Exit(main)
  /\ UNCHANGED <<task, conv, runs, schedVars>>

NextMain ==
  \/ MainStart
  \/ MainAuthenticate
  \/ MainSetup
  \/ \E id \in 1..MaxTriggers : MainFire(id)
  \/ \E r \in 1..MaxRuns, res \in MainResults : MainSendSettle(r, res)
  \/ \E r \in 1..MaxRuns : MainTimerExpire(r)
  \/ MainSigint
  \/ MainDisconnected

SpecMain == InitMain /\ [][NextMain]_vars

\* ===================================================================== claims
RunIds == 1..Len(runs)

\* C1: the outcome sequence a call of sendMessagesToAllTargets returns has
\* one outcome per target, outcome i carrying target i; while the call is
\* under way the outcomes recorded so far are those of the first targets,
\* in order.
C1_OutcomesFollowTargets ==
  \A r \in RunIds :
    /\ Len(runs[r].results) <= Len(runs[r].targets)
    /\ \A k \in 1..Len(runs[r].results) : runs[r].results[k].target = runs[r].targets[k]
    /\ runs[r].pc = "returned" => Len(runs[r].results) = Len(runs[r].targets)

\* a call over two targets has returned, one send succeeded, the other failed
C1_Witness ==
  \E r \in RunIds :
    /\ runs[r].pc = "returned"
    /\ Len(runs[r].targets) = 2
    /\ runs[r].results[1].success
    /\ ~runs[r].results[2].success
    /\ runs[r].targets[1] # runs[r].targets[2]

\* C2: within one call at most one send is in flight, and while the send
\* for target k is in flight every earlier target has its outcome recorded,
\* every earlier pause has been started and has elapsed; the transport is
\* called for the targets in increasing index order.
C2_StrictlySequential ==
  \A r \in RunIds :
    /\ Cardinality(runs[r].inflight) <= 1
    /\ \A k \in runs[r].inflight :
         /\ ~runs[r].timer
         /\ Len(runs[r].results) = k - 1
         /\ Len(runs[r].pauses) = k - 1
    /\ \A a, b \in 1..Len(runs[r].sends) : a < b => runs[r].sends[a] < runs[r].sends[b]

\* the send for the second target is in flight, after the first one's pause
C2_Witness ==
  \E r \in RunIds :
    /\ runs[r].inflight = {2}
    /\ Len(runs[r].pauses) = 1

\* C3: every send the transport rate-limits is recorded with success=false,
\* error RATE_LIMITED and the parsed wait w, and the pause that follows it
\* is w + 1 seconds, for every w including 0.
C3_RateLimitPause ==
  \A r \in RunIds :
    \A k \in 1..Len(runs[r].results) :
      runs[r].attempts[k] = "rate" =>
        /\ ~runs[r].results[k].success
        /\ runs[r].results[k].error = RATE_LIMITED
        /\ runs[r].results[k].hasWaitTime
        /\ runs[r].pauses[k] = (runs[r].results[k].waitTime + 1) * 1000

\* C4: every send that fails with something other than a rate limit is
\* recorded with success=false and an error that is not RATE_LIMITED, is
\* followed by the inter-send delay, and does not end the call.
C4_OtherFailureContinues ==
  \A r \in RunIds :
    \A k \in 1..Len(runs[r].attempts) :
      runs[r].attempts[k] = "fail" =>
        /\ runs[r].pc # "rejected"
        /\ k <= Len(runs[r].results)
        /\ ~runs[r].results[k].success
        /\ runs[r].results[k].error # RATE_LIMITED
        /\ runs[r].pauses[k] = runs[r].delay

\* C5: no call of sendMessagesToAllTargets rejects, whatever the transport
\* fails with and whatever the target is.
C5_NeverRejects == \A r \in RunIds : runs[r].pc # "rejected"

\* C6: a scheduleMultipleDailyTimes call that fails leaves the owned
\* triggers and node-cron's tasks exactly as they were before the call.
C6_AllOrNothing ==
  [][(lastCall' # lastCall /\ lastCall'.op = "daily" /\ lastCall'.threw)
       => (scheduledTasks' = scheduledTasks /\ cronTasks' = cronTasks)]_vars

\* C7: right after stopAllTasks the owned list is empty and no cron task is
\* running; a callback is run only for a task that is running, so never for
\* a cancelled one; stopAllTasks on an empty owned list changes nothing.
C7_StopAllCancelsAll ==
  /\ [](lastCall.op = "stopAll" =>
          /\ scheduledTasks = <<>>
          /\ \A id \in 1..Len(cronTasks) : ~cronTasks[id].running)
  /\ [][\A id \in 1..Len(fires) :
          fires'[id] > fires[id] => cronTasks[id].running]_vars
  /\ [][(lastCall' # lastCall /\ lastCall'.op = "stopAll" /\ scheduledTasks = <<>>)
          => UNCHANGED <<cronTasks, scheduledTasks, fires, runs, escaped>>]_vars

\* stopAllTasks has cancelled a trigger whose callback had run before
C7_Witness ==
  /\ lastCall.op = "stopAll"
  /\ \E id \in 1..Len(cronTasks) : fires[id] > 0 /\ ~cronTasks[id].running
  /\ Len(cronTasks) >= 2

\* C8: the owned list holds exactly the triggers the accepted requests since
\* the last stopAllTasks stand for: one per interval or raw expression, k per
\* list of k daily times.
C8_OwnedMatchesRequests == Len(scheduledTasks) = issued

\* C9: whatever the task raises, the fire callback's promise does not
\* reject, and the trigger stays running and owned.
C9_TaskErrorsSwallowed == escaped = 0

\* C10: a call of sendMessagesToAllTargets that was under way when
\* stopAllTasks was called ends by returning one outcome per target.
C10_RunsToCompletion ==
  \A r \in RunIds :
    (runs[r].stoppedDuring /\ Finished(runs[r])) =>
      /\ runs[r].pc = "returned"
      /\ Len(runs[r].results) = Len(runs[r].targets)

\* C11: a running trigger can fire whatever the earlier invocations are doing
\* (only the model's bounds on fires and runs stop it), and the invocation it
\* starts has begun its first iteration at once.
C11_FireAndForget ==
  /\ \A id \in 1..Len(cronTasks) :
       (cronTasks[id].running /\ TotalFires < MaxFires /\ Len(runs) < MaxRuns)
         => ENABLED Fire(id)
  /\ \A r \in RunIds : runs[r].pc # "start"

\* two invocations of sendTask overlap: each has a send in flight
C11_Witness ==
  /\ Len(runs) = 2
  /\ runs[1].inflight # {} /\ runs[2].inflight # {}
  /\ runs[1].trigger # 0 /\ runs[2].trigger # 0

\* C12: intervalToCron returns `*/v * * * *` for minutes 1..59,
\* `0 */v * * *` for hours 1..23 and `0 0 */v * *` for days 1..30, v written
\* in decimal.
C12_IntervalExpressions ==
  (conv.fn = "intervalToCron" /\ conv.done /\ conv.value.tenths = 0) =>
    LET v == conv.value.whole
    IN  /\ (conv.unit = "minutes" /\ v \in 1..59) =>
             ~conv.threw /\ conv.out = "*/" \o ToString(v) \o " * * * *"
        /\ (conv.unit = "hours" /\ v \in 1..23) =>
             ~conv.threw /\ conv.out = "0 */" \o ToString(v) \o " * * *"
        /\ (conv.unit = "days" /\ v \in 1..30) =>
             ~conv.threw /\ conv.out = "0 0 */" \o ToString(v) \o " * *"
        /\ (conv.unit = "minutes" /\ v = 59) => conv.out = "*/59 * * * *"
        /\ (conv.unit = "hours" /\ v = 23) => conv.out = "0 */23 * * *"
        /\ (conv.unit = "days" /\ v = 1) => conv.out = "0 0 */1 * *"

\* intervalToCron has converted the largest minute interval
C12_Witness ==
  /\ conv.fn = "intervalToCron" /\ conv.done
  /\ conv.unit = "minutes" /\ conv.value = Whole(59)
  /\ conv.out = "*/59 * * * *"

IntegerInRange(value, unit) ==
  /\ value.tenths = 0
  /\ \/ unit = "minutes" /\ value.whole \in 1..59
     \/ unit = "hours" /\ value.whole \in 1..23
     \/ unit = "days" /\ value.whole \in 1..30

\* C13: intervalToCron raises for every unit other than minutes, hours and
\* days and for every value that is not an integer of the unit's range, so
\* that no such input yields an expression.
C13_InvalidIntervalRejected ==
  (conv.fn = "intervalToCron" /\ conv.done /\ ~IntegerInRange(conv.value, conv.unit))
    => conv.threw

StrictHHMM(time) ==
  /\ Len(time) = 5
  /\ time[3] = ":"
  /\ \A p \in {1, 2, 4, 5} : time[p] \in Digits
  /\ 10 * DigitVal(time[1]) + DigitVal(time[2]) <= 23
  /\ 10 * DigitVal(time[4]) + DigitVal(time[5]) <= 59

\* C14: dailyTimeToCron accepts exactly the zero-padded HH:MM strings with
\* HH in 00..23 and MM in 00..59, maps them to `MM HH * * *` with both
\* numbers in decimal without padding, and raises for every other string.
C14_StrictDailyTime ==
  (conv.fn = "dailyTimeToCron" /\ conv.done) =>
    /\ conv.threw <=> ~StrictHHMM(conv.time)
    /\ ~conv.threw =>
         conv.out = ToString(10 * DigitVal(conv.time[4]) + DigitVal(conv.time[5]))
                    \o " " \o
                    ToString(10 * DigitVal(conv.time[1]) + DigitVal(conv.time[2]))
                    \o " * * *"
\* C15: scheduleMultipleDailyTimes on a non-empty list of k valid HH:MM times
\* returns normally, registers exactly k triggers, appended to the owned set
\* in list order, one per time with that time's expression, and returns them
\* in the same order; on an empty list it raises and registers nothing.
ExpectedDailyExpression(time) ==
  CASE time = T0905 -> "5 9 * * *"
    [] time = T2359 -> "59 23 * * *"
    [] OTHER -> "unexpected"
C15_DailyTimesInOrder ==
  [][(lastCall' # lastCall /\ lastCall'.op = "daily") =>
       LET times == lastCall'.times
           k == Len(times)
           base == Len(cronTasks)
       IN  /\ (k > 0 /\ \A j \in 1..k : StrictHHMM(times[j])) =>
                 /\ ~lastCall'.threw
                 /\ Len(cronTasks') = base + k
                 /\ SubSeq(cronTasks', 1, base) = cronTasks
                 /\ scheduledTasks' = scheduledTasks \o [j \in 1..k |-> base + j]
                 /\ lastCall'.ret = [j \in 1..k |-> base + j]
                 /\ \A j \in 1..k :
                      cronTasks'[base + j] =
                        [expr |-> ExpectedDailyExpression(times[j]), running |-> TRUE]
           /\ k = 0 =>
                 /\ lastCall'.threw
                 /\ cronTasks' = cronTasks
                 /\ scheduledTasks' = scheduledTasks]_vars
\* two different valid times were scheduled by one call
C15_Witness ==
  /\ lastCall.op = "daily"
  /\ lastCall.times = <<T2359, T0905>>
  /\ lastCall.ret = <<1, 2>>
  /\ Len(scheduledTasks) = 2

\* C16: scheduleTask on an expression that fails validation raises to its
\* caller, creates no cron task and leaves scheduledTasks as it was; on a
\* valid expression it registers one trigger. Every trigger that exists
\* carries an expression that passed validation, so a fire callback has no
\* invalid schedule left to report.
C16_InvalidRejectedAtScheduling ==
  [][/\ (lastCall' # lastCall /\ lastCall'.op = "raw") =>
          IF lastCall'.expr \in {"every day", "61 * * * *"}
          THEN /\ lastCall'.threw
               /\ cronTasks' = cronTasks
               /\ scheduledTasks' = scheduledTasks
               /\ fires' = fires
          ELSE /\ ~lastCall'.threw
               /\ cronTasks' =
                    Append(cronTasks, [expr |-> lastCall'.expr, running |-> TRUE])
               /\ scheduledTasks' = Append(scheduledTasks, Len(cronTasks) + 1)
     /\ \A id \in 1..Len(cronTasks') : CronValidate(cronTasks'[id].expr)
     /\ (\E id \in 1..Len(fires) : fires'[id] > fires[id]) =>
          /\ cronTasks' = cronTasks
          /\ scheduledTasks' = scheduledTasks]_vars
\* an invalid expression was refused while a trigger was already owned
C16_Witness ==
  /\ lastCall.op = "raw"
  /\ lastCall.expr = "61 * * * *"
  /\ lastCall.threw
  /\ Len(scheduledTasks) = 1
  /\ Len(cronTasks) = 1

\* C17: sendMessagesToAllTargets called with an empty array calls the
\* transport for nothing, starts no pause, and returns an empty result array
\* without raising.
C17_EmptyListReturnsEmpty ==
  \A r \in RunIds :
    (runs[r].arg = "array" /\ runs[r].targets = <<>>) =>
      /\ runs[r].pc = "returned"
      /\ runs[r].results = <<>>
      /\ runs[r].sends = <<>>
      /\ runs[r].inflight = {}
      /\ runs[r].pauses = <<>>
      /\ ~runs[r].timer
C17_Witness ==
  /\ Len(runs) = 1
  /\ runs[1].arg = "array"
  /\ runs[1].targets = <<>>
  /\ runs[1].pc = "returned"

\* C18: sendMessagesToAllTargets called with a targets argument that is not
\* an array rejects, with no send attempted, no result recorded and no pause
\* started.
C18_NonSequenceRejected ==
  \A r \in RunIds :
    runs[r].arg # "array" =>
      /\ runs[r].pc = "rejected"
      /\ runs[r].results = <<>>
      /\ runs[r].sends = <<>>
      /\ runs[r].pauses = <<>>

\* C19: a send the transport rejected with an Error is recorded as rate
\* limited (error RATE_LIMITED with a waitTime) exactly when the message holds
\* the FLOOD_WAIT marker; waitTime is the number after the marker, and 60
\* when no number follows it; a marker without a number still gives a result
\* and does not reject the call.
MarkerWaits ==
  (MsgFlood0 :> 0) @@ (MsgFlood5 :> 5) @@ (MsgFlood120 :> 120)
  @@ (MsgFloodNoNum :> 60)
C19_RateLimitClassification ==
  \A r \in RunIds :
    /\ \A k \in 1..Len(runs[r].results) :
         LET e == runs[r].errs[k]
             out == runs[r].results[k]
             marked == e.kind = "Error" /\ e.message \in DOMAIN MarkerWaits
         IN  /\ (out.error = RATE_LIMITED /\ out.hasWaitTime) <=> marked
             /\ marked => (~out.success /\ out.waitTime = MarkerWaits[e.message])
    /\ \A k \in 1..Len(runs[r].errs) :
         (runs[r].errs[k].kind = "Error"
          /\ runs[r].errs[k].message \in DOMAIN MarkerWaits) =>
           k <= Len(runs[r].results)
\* a three-digit duration and a marker without a number in one run
C19_Witness ==
  /\ Len(runs) = 1
  /\ Len(runs[1].results) = 2
  /\ runs[1].errs = <<ErrorObj(MsgFlood120), ErrorObj(MsgFloodNoNum)>>
  /\ runs[1].results[1].waitTime = 120
  /\ runs[1].results[2].waitTime = 60
  /\ runs[1].pc = "returned"

\* C20: in a finished run the transport was called exactly once for every
\* well-formed target of the list and never for another one, whatever the
\* outcomes were.
WellFormed(target) ==
  /\ ~target.isNull
  /\ \/ target.type = "chat" /\ target.id # 0
     \/ target.username # ""
SendCount(run, k) == Cardinality({j \in 1..Len(run.sends) : run.sends[j] = k})
C20_SingleAttemptPerTarget ==
  \A r \in RunIds :
    /\ \A k \in 1..Len(runs[r].targets) : SendCount(runs[r], k) <= 1
    /\ Finished(runs[r]) =>
         \A k \in 1..Len(runs[r].targets) :
           SendCount(runs[r], k) = IF WellFormed(runs[r].targets[k]) THEN 1 ELSE 0

\* C21: when calls of sendMessagesToAllTargets overlap, a step of one call
\* changes nothing of another; every call's results are the outcomes of its
\* own sends, for its own targets in its own order, one per target when it
\* returns; its pauses follow from its own outcomes alone; and a pause
\* pending in one call leaves the sends and timers of the others free to
\* go on.
OwnOutcome(run, k) ==
  LET out == run.results[k]
      e == run.errs[k]
  IN  /\ out.target = run.targets[k]
      /\ out.success <=> (run.attempts[k] = "ok" /\ e = NoErr)
      /\ e = ErrorObj(MsgFlood5) =>
           (out.error = RATE_LIMITED /\ out.waitTime = 5 /\ run.pauses[k] = 6000)
      /\ e # ErrorObj(MsgFlood5) => run.pauses[k] = run.delay
OwnResultsOnly(run) ==
  /\ Len(run.results) <= Len(run.targets)
  /\ Len(run.pauses) = Len(run.results)
  /\ Len(run.errs) >= Len(run.results)
  /\ \A k \in 1..Len(run.results) : OwnOutcome(run, k)
  /\ run.pc = "returned" => Len(run.results) = Len(run.targets)
OthersGoOn ==
  \A a, b \in RunIds :
    (a # b /\ runs[a].timer) =>
      /\ runs[b].pc = "await_send" => ENABLED SendSettle(b, Resolved(11))
      /\ runs[b].pc = "await_timer" => ENABLED TimerExpire(b)
C21_OverlappingRunsIsolated ==
  /\ [](OthersGoOn /\ \A r \in RunIds : OwnResultsOnly(runs[r]))
  /\ [][/\ Len(runs') >= Len(runs)
        /\ \A a, b \in RunIds : a # b => (runs'[a] = runs[a] \/ runs'[b] = runs[b])
        /\ Len(runs') > Len(runs) => SubSeq(runs', 1, Len(runs)) = runs]_vars
\* two calls over different lists overlapped: the second one returned while
\* the first was in its rate-limit pause, and the first then returned too
C21_Witness ==
  /\ Len(runs) >= 2
  /\ runs[1].targets = <<ChatTarget, GroupTarget>>
  /\ runs[2].targets = <<GroupTarget>>
  /\ runs[1].pc = "returned"
  /\ runs[2].pc = "returned"
  /\ runs[1].pauses = <<6000, 100>>
  /\ runs[2].pauses = <<100>>
  /\ runs[2].results[1].success

\* C22: every call of sendMessagesToAllTargets over an array eventually
\* returns, having started exactly one pause per target, whatever the sends
\* settle with.
C22_EventuallyReturns ==
  [](\/ Len(runs) = 0
     \/ runs[1].arg # "array"
     \/ <>(/\ Len(runs) = 1
           /\ runs[1].pc = "returned"
           /\ Len(runs[1].pauses) = Len(runs[1].targets)))

\* C23: a trigger exists, or a run of sendMessagesToAllTargets was started,
\* only when authenticate returned true; and when the process has exited
\* after a failed authentication or on a scheduling type other than
\* interval, daily and cron, no trigger was registered and no send made.
LoginSucceeds(m) == m.phone /\ m.creds /\ m.login \in {"saved", "start_ok"}
C23_NothingBeforeAuthentication ==
  /\ (cronTasks # <<>> \/ scheduledTasks # <<>> \/ runs # <<>>) =>
       (main.authed /\ LoginSucceeds(main))
  /\ main.authed => LoginSucceeds(main)
  /\ (/\ main.pc = "exited"
      /\ \/ ~LoginSucceeds(main)
         \/ main.sched.type \notin {"interval", "daily", "cron"}) =>
       /\ cronTasks = <<>>
       /\ scheduledTasks = <<>>
       /\ runs = <<>>
\* authenticated, then exited on the unsupported type 'hourly'
C23_Witness ==
  /\ main.pc = "exited"
  /\ main.authed
  /\ main.user = "user"
  /\ main.sched.type = "hourly"
  /\ cronTasks = <<>>
  /\ runs = <<>>

====
